---- MODULE Spec2Model ----
(***************************************************************************)
(* Model of bot.py: a Telegram bot with three slash commands (/start,      *)
(* /play, /menu), a callback-query handler for the inline buttons of the   *)
(* menu, the post_init hook that publishes the command list, and main.     *)
(*                                                                         *)
(* Python str values that the code only passes along or compares as a      *)
(* whole (message texts, the URL, the token) are TLA+ strings.  The str    *)
(* values the code takes apart or puts together (command names, button     *)
(* labels, callback data) are sequences of one-character strings, so that  *)
(* startswith, replace and the f-strings are computed character by         *)
(* character.                                                              *)
(***************************************************************************)
EXTENDS Integers, Sequences, FiniteSets, TLC

VARIABLES
    envToken,   \* the BOT_TOKEN entry of the process environment
    registry,   \* the module-level list BOT_COMMANDS (never assigned by the code)
    mainPc,     \* position of main() / Application.run_polling
    TOKEN,      \* main's local TOKEN
    handlers,   \* handlers registered with application.add_handler, in order
    calls,      \* Bot API calls made by post_init, in order
    mainLog,    \* log records written by main and post_init
    update,     \* the Update being handled
    handler,    \* the callback running for it
    hpc,        \* position inside that callback
    sent,       \* reply_text / answer calls made for this update, in order
    hLog        \* log records written while handling this update

vars == <<envToken, registry, mainPc, TOKEN, handlers, calls, mainLog,
          update, handler, hpc, sent, hLog>>

mainVars == <<envToken, registry, mainPc, TOKEN, handlers, calls, mainLog>>
eventVars == <<update, handler, hpc, sent, hLog>>

(***************************************************************************)
(* Bounds of the model.                                                    *)
(***************************************************************************)
\* longest command list tried when the list is an input (SpecReg)
MaxRegistry == 3

(***************************************************************************)
(* Character sequences.                                                    *)
(***************************************************************************)
Str_start == <<"s", "t", "a", "r", "t">>
Str_play == <<"p", "l", "a", "y">>
Str_menu == <<"m", "e", "n", "u">>
Str_help == <<"h", "e", "l", "p">>
Str_unknown == <<"u", "n", "k", "n", "o", "w", "n">>
Str_nocommandprefix ==
    <<"n", "o", "c", "o", "m", "m", "a", "n", "d", "p", "r", "e", "f", "i", "x">>

\* the literal "cmd_" of the f-string f"cmd_{cmd.command}" and of startswith/replace
CMD_PREFIX == <<"c", "m", "d", "_">>
\* the two characters U+25B6 and space that open the f-string of a menu
\* button's label, before {cmd.command}
LABEL_MARK == <<"U+25B6", " ">>

\* Python None where a str is expected
None == "None"

(***************************************************************************)
(* Module constants.                                                       *)
(***************************************************************************)
LOTTERY_URL == "https://tinyurl.com/muwymx93"
BUTTON_TEXT == "Play lottery"
START_MESSAGE == "Click the button below to play lottery:"
\* U+1F4CB stands for the clipboard character the title starts with
MENU_TITLE == "U+1F4CB Command Menu"

BotCommand(command, description) == [command |-> command, description |-> description]

BOT_COMMANDS ==
    << BotCommand(Str_start, "Start the bot"),
       BotCommand(Str_play, "Open Lottery"),
       BotCommand(Str_menu, "Show command menu") >>

\* the second argument of os.getenv in main
DEFAULT_TOKEN == "8494619697:AAG91Y2BkW-_u__Vob7czhcmQoPrxcBijpM"

START_ACK == "Bot started. Use /play to open Lottery or /menu to see available commands."
SORRY_LATER == "Sorry, an error occurred. Please try again later."
SORRY_MENU == "Sorry, an error occurred while showing the menu. Please try again later."
SORRY_AGAIN == "Sorry, an error occurred. Please try again."

(***************************************************************************)
(* str methods, as Python computes them.                                   *)
(***************************************************************************)
\* s.startswith(p)
startswith(s, p) ==
    /\ Len(s) >= Len(p)
    /\ SubSeq(s, 1, Len(p)) = p

\* s.replace(old, ""), old non-empty: every non-overlapping occurrence of
\* old, found scanning from the left, is removed
RECURSIVE replace(_, _)
replace(s, old) ==
    IF Len(s) < Len(old) THEN s
    ELSE IF SubSeq(s, 1, Len(old)) = old
         THEN replace(SubSeq(s, Len(old) + 1, Len(s)), old)
         ELSE <<Head(s)>> \o replace(Tail(s), old)

(***************************************************************************)
(* Replies.                                                                *)
(***************************************************************************)
\* InlineKeyboardButton(text, url=...) / InlineKeyboardButton(text, callback_data=...)
UrlButton(text, url) == [text |-> text, url |-> url, callback_data |-> <<>>]
CallbackButton(text, data) == [text |-> text, url |-> None, callback_data |-> data]

\* the arguments of one reply_text call; reply_markup <<>> is "no markup"
Reply(text, parse_mode, reply_markup) ==
    [text |-> text, parse_mode |-> parse_mode, reply_markup |-> reply_markup]

NoOp == [text |-> None, parse_mode |-> None, reply_markup |-> <<>>]

\* the for loop of menu_command: one row with one button appended per
\* command, from index i on
RECURSIVE MenuLoop(_, _, _)
MenuLoop(reg, i, keyboard) ==
    IF i > Len(reg) THEN keyboard
    ELSE MenuLoop(reg, i + 1,
                  Append(keyboard,
                         << CallbackButton(LABEL_MARK \o reg[i].command,
                                           CMD_PREFIX \o reg[i].command) >>))

\* a loop that stops one command short
MenuKeyboard_short(reg) ==
    MenuLoop(IF Len(reg) = 0 THEN reg ELSE SubSeq(reg, 1, Len(reg) - 1), 1, <<>>)

\* keyboard built by menu_command
MenuKeyboard(reg) == MenuLoop(reg, 1, <<>>)

\* the for loop of button_callback's "menu" branch
RECURSIVE ButtonMenuLoop(_, _, _)
ButtonMenuLoop(reg, i, keyboard) ==
    IF i > Len(reg) THEN keyboard
    ELSE ButtonMenuLoop(reg, i + 1,
                        Append(keyboard,
                               << CallbackButton(LABEL_MARK \o reg[i].command,
                                                 CMD_PREFIX \o reg[i].command) >>))

\* a re-rendering that labels the buttons with the bare command name
RECURSIVE ButtonMenuLoop_bare(_, _, _)
ButtonMenuLoop_bare(reg, i, keyboard) ==
    IF i > Len(reg) THEN keyboard
    ELSE ButtonMenuLoop_bare(reg, i + 1,
                             Append(keyboard,
                                    << CallbackButton(reg[i].command,
                                                      CMD_PREFIX \o reg[i].command) >>))

ButtonMenuKeyboard_bare(reg) == ButtonMenuLoop_bare(reg, 1, <<>>)

\* keyboard built by button_callback's "menu" branch
ButtonMenuKeyboard(reg) == ButtonMenuLoop(reg, 1, <<>>)

\* what each slash-command handler passes to its first reply_text
StartReply == Reply(START_ACK, None, <<>>)
PlayReply == Reply(START_MESSAGE, None, << <<UrlButton(BUTTON_TEXT, LOTTERY_URL)>> >>)
MenuReply(reg) == Reply(MENU_TITLE, "HTML", MenuKeyboard(reg))

\* an if/elif chain without its last branch
ButtonDispatch_nomenu(command_name, reg) ==
    IF command_name = Str_start THEN Reply(START_ACK, None, <<>>)
    ELSE IF command_name = Str_play
    THEN Reply(START_MESSAGE, None, << <<UrlButton(BUTTON_TEXT, LOTTERY_URL)>> >>)
    ELSE NoOp

\* the if/elif chain of button_callback on command_name: the reply_text
\* arguments of the branch taken, NoOp when no branch is taken
ButtonDispatch(command_name, reg) ==
    IF command_name = Str_start THEN Reply(START_ACK, None, <<>>)
    ELSE IF command_name = Str_play
    THEN Reply(START_MESSAGE, None, << <<UrlButton(BUTTON_TEXT, LOTTERY_URL)>> >>)
    ELSE IF command_name = Str_menu
    THEN Reply(MENU_TITLE, "HTML", ButtonMenuKeyboard(reg))
    ELSE NoOp

\* one call of a transport primitive, with its outcome
Call(method, role, r, show_alert, ok) ==
    [method |-> method, role |-> role, text |-> r.text, parse_mode |-> r.parse_mode,
     reply_markup |-> r.reply_markup, show_alert |-> show_alert, ok |-> ok]

Content(c) == Reply(c.text, c.parse_mode, c.reply_markup)

Log(level, msg) == [level |-> level, msg |-> msg]

(***************************************************************************)
(* Inputs: the environment and the updates the transport delivers.         *)
(***************************************************************************)
\* BOT_TOKEN: not set, set to the empty string, set to a token
Unset == "<unset>"
EnvTokens == {Unset, "", "123456:token-from-env"}

\* callback data of pressed buttons: the three the menu attaches, and data
\* of buttons this code never made
Payloads ==
    { CMD_PREFIX \o Str_start,
      CMD_PREFIX \o Str_play,
      CMD_PREFIX \o Str_menu,
      CMD_PREFIX \o Str_unknown,
      CMD_PREFIX \o Str_help,
      Str_nocommandprefix,
      Str_start,
      CMD_PREFIX,
      CMD_PREFIX \o CMD_PREFIX \o Str_start,
      CMD_PREFIX \o Str_menu \o CMD_PREFIX,
      <<"x">> \o CMD_PREFIX \o Str_play }

\* An Update as far as the handlers read it.  message: update.message is
\* set (it is not for an edited message, which CommandHandler also
\* accepts).  effective_user: update.effective_user is set (a message may
\* carry no sender; a callback query always carries one).  callback_query,
\* data_set/data, query_message: update.callback_query, its data and its
\* message (a CallbackQueryHandler is only called with a callback query).
CommandUpdates ==
    { [kind |-> "command", command |-> c, message |-> m, effective_user |-> usr,
       callback_query |-> FALSE, data_set |-> FALSE, data |-> <<>>,
       query_message |-> FALSE] :
      c \in {Str_start, Str_play, Str_menu}, m \in BOOLEAN, usr \in BOOLEAN }

CallbackUpdates ==
    { [kind |-> "callback_query", command |-> <<>>, message |-> FALSE,
       effective_user |-> TRUE, callback_query |-> TRUE, data_set |-> TRUE,
       data |-> d, query_message |-> qm] :
      d \in Payloads, qm \in BOOLEAN }
    \cup
    { [kind |-> "callback_query", command |-> <<>>, message |-> FALSE,
       effective_user |-> TRUE, callback_query |-> TRUE, data_set |-> FALSE,
       data |-> <<>>, query_message |-> qm] :
      qm \in BOOLEAN }

Updates == CommandUpdates \cup CallbackUpdates

NoUpdate ==
    [kind |-> "none", command |-> <<>>, message |-> FALSE, effective_user |-> FALSE,
     callback_query |-> FALSE, data_set |-> FALSE, data |-> <<>>,
     query_message |-> FALSE]

\* command lists tried when the list is an input
RegistryNames == {Str_start, Str_menu, Str_help}

RECURSIVE SeqsUpTo(_, _)
SeqsUpTo(S, n) ==
    IF n = 0 THEN {<<>>}
    ELSE LET shorter == SeqsUpTo(S, n - 1)
         IN  shorter \cup {Append(q, x) : q \in shorter, x \in S}

Registries ==
    SeqsUpTo({BotCommand(c, "description") : c \in RegistryNames}, MaxRegistry)

(***************************************************************************)
(* Initial states.                                                         *)
(***************************************************************************)
InitCommon ==
    /\ envToken \in EnvTokens
    /\ mainPc = "main"
    /\ TOKEN = None
    /\ handlers = <<>>
    /\ calls = <<>>
    /\ mainLog = <<>>
    /\ update = NoUpdate
    /\ handler = "none"
    /\ hpc = "idle"
    /\ sent = <<>>
    /\ hLog = <<>>

Init ==
    /\ registry = BOT_COMMANDS
    /\ InitCommon

\* the command list as an input of the menu rendering
InitReg ==
    /\ registry \in Registries
    /\ InitCommon

(***************************************************************************)
(* main and post_init.                                                     *)
(***************************************************************************)
\* os.getenv(key, default)
getenv(value, default) == IF value = Unset THEN default ELSE value

\* TOKEN = os.getenv(...); if not TOKEN: log, return
main_getenv ==
    /\ mainPc = "main"
    /\ TOKEN' = getenv(envToken, DEFAULT_TOKEN)
    /\ IF TOKEN' = ""
       THEN /\ mainLog' = Append(mainLog, Log("error", "Bot token not found!"))
            /\ mainPc' = "returned"
       ELSE /\ mainLog' = mainLog
            /\ mainPc' = "build"
    /\ UNCHANGED <<envToken, registry, handlers, calls>>
    /\ UNCHANGED eventVars

\* Application.builder()...build() and the add_handler calls
main_build ==
    /\ mainPc = "build"
    /\ handlers' =
         << [type |-> "CommandHandler", command |-> Str_start, callback |-> "start"],
            [type |-> "CommandHandler", command |-> Str_play, callback |-> "play_command"],
            [type |-> "CommandHandler", command |-> Str_menu, callback |-> "menu_command"],
            [type |-> "CallbackQueryHandler", command |-> <<>>,
             callback |-> "button_callback"] >>
    /\ mainLog' = Append(mainLog, Log("info", "Bot is starting..."))
    /\ mainPc' = "run_polling"
    /\ UNCHANGED <<envToken, registry, TOKEN, calls>>
    /\ UNCHANGED eventVars

\* application.run_polling up to post_init: connecting with the token
\* succeeds, or raises into main's except clause
main_run_polling ==
    /\ mainPc = "run_polling"
    /\ \E ok \in BOOLEAN :
         IF ok
         THEN /\ mainPc' = "post_init"
              /\ mainLog' = mainLog
         ELSE /\ mainPc' = "failed"
              /\ mainLog' = Append(mainLog, Log("error", "Failed to start bot"))
    /\ UNCHANGED <<envToken, registry, TOKEN, handlers, calls>>
    /\ UNCHANGED eventVars

main == main_getenv \/ main_build \/ main_run_polling

\* a post_init that goes straight to set_my_commands
post_init_delete_skipped ==
    /\ mainPc = "post_init"
    /\ mainPc' = "post_init_set"
    /\ UNCHANGED <<envToken, registry, TOKEN, handlers, calls, mainLog>>
    /\ UNCHANGED eventVars

\* the inner try: await application.bot.delete_my_commands()
post_init_delete ==
    /\ mainPc = "post_init"
    /\ \E ok \in BOOLEAN :
         /\ calls' = Append(calls, [method |-> "delete_my_commands",
                                    commands |-> <<>>, ok |-> ok])
         /\ mainLog' = IF ok THEN mainLog
                       ELSE Append(mainLog, Log("warning", "Could not delete old commands"))
    /\ mainPc' = "post_init_set"
    /\ UNCHANGED <<envToken, registry, TOKEN, handlers>>
    /\ UNCHANGED eventVars

\* where run_polling goes after set_my_commands: the outer except clause
\* of post_init swallows a failure
AfterSetMyCommands(ok) == "polling"

\* await application.bot.set_my_commands(BOT_COMMANDS), inside the outer try
post_init_set ==
    /\ mainPc = "post_init_set"
    /\ \E ok \in BOOLEAN :
         /\ calls' = Append(calls, [method |-> "set_my_commands",
                                    commands |-> registry, ok |-> ok])
         /\ mainLog' = IF ok
                       THEN Append(mainLog, Log("info", "Bot commands menu initialized successfully"))
                       ELSE Append(mainLog, Log("error", "Error in post_init"))
         /\ mainPc' = AfterSetMyCommands(ok)
    /\ UNCHANGED <<envToken, registry, TOKEN, handlers>>
    /\ UNCHANGED eventVars

post_init == post_init_delete \/ post_init_set

(***************************************************************************)
(* The transport hands an update to the first registered handler that      *)
(* accepts it; updates are handled one after the other.                    *)
(***************************************************************************)
Matches(h, u) ==
    \/ h.type = "CommandHandler" /\ u.kind = "command" /\ u.command = h.command
    \/ h.type = "CallbackQueryHandler" /\ u.kind = "callback_query"

process_update ==
    /\ mainPc = "polling"
    /\ hpc \in {"idle", "returned"}
    /\ \E u \in Updates, i \in DOMAIN handlers :
         /\ Matches(handlers[i], u)
         /\ \A j \in 1..(i - 1) : ~Matches(handlers[j], u)
         /\ update' = u
         /\ handler' = handlers[i].callback
    /\ hpc' = "entry"
    /\ sent' = <<>>
    /\ hLog' = <<>>
    /\ UNCHANGED mainVars

(***************************************************************************)
(* The slash-command handlers.  Each await of a transport call is a step   *)
(* whose outcome (ok) the transport decides.                               *)
(***************************************************************************)
\* start: the except clause of the outer try
start_except(u) == IF u.message THEN "fallback" ELSE "returned"

\* start: the guard on update.message
start_entry ==
    /\ handler = "start"
    /\ hpc = "entry"
    /\ IF ~update.message
       THEN /\ hLog' = Append(hLog, Log("warning", "Received update without message in start handler"))
            /\ hpc' = "returned"
       ELSE /\ hLog' = hLog
            /\ hpc' = "reply_text"
    /\ UNCHANGED <<update, handler, sent>>
    /\ UNCHANGED mainVars

\* start: the reply, then the log line that reads update.effective_user.id
start_reply_text ==
    /\ handler = "start"
    /\ hpc = "reply_text"
    /\ \E ok \in BOOLEAN :
         /\ sent' = Append(sent, Call("reply_text", "primary", StartReply, FALSE, ok))
         /\ IF ok /\ update.effective_user
            THEN /\ hLog' = Append(hLog, Log("info", "Start acknowledgement sent"))
                 /\ hpc' = "returned"
            ELSE /\ hLog' = Append(hLog, Log("error", "Error in start handler"))
                 /\ hpc' = start_except(update)
    /\ UNCHANGED <<update, handler>>
    /\ UNCHANGED mainVars

\* an apology that is sent again for as long as it fails
start_fallback_retrying ==
    /\ handler = "start"
    /\ hpc = "fallback"
    /\ \E ok \in BOOLEAN :
         /\ sent' = Append(sent, Call("reply_text", "fallback",
                                      Reply(SORRY_LATER, None, <<>>), FALSE, ok))
         /\ hLog' = IF ok THEN hLog
                    ELSE Append(hLog, Log("error", "Failed to send error message to user"))
         /\ hpc' = IF ok THEN "returned" ELSE "fallback"
    /\ UNCHANGED <<update, handler>>
    /\ UNCHANGED mainVars

\* start: the apology, in its own try
start_fallback ==
    /\ handler = "start"
    /\ hpc = "fallback"
    /\ \E ok \in BOOLEAN :
         /\ sent' = Append(sent, Call("reply_text", "fallback",
                                      Reply(SORRY_LATER, None, <<>>), FALSE, ok))
         /\ hLog' = IF ok THEN hLog
                    ELSE Append(hLog, Log("error", "Failed to send error message to user"))
    /\ hpc' = "returned"
    /\ UNCHANGED <<update, handler>>
    /\ UNCHANGED mainVars

start == start_entry \/ start_reply_text \/ start_fallback

\* play_command: the except clause of the outer try
play_command_except(u) == IF u.message THEN "fallback" ELSE "returned"

\* play_command: the guard on update.message
play_command_entry ==
    /\ handler = "play_command"
    /\ hpc = "entry"
    /\ IF ~update.message
       THEN /\ hLog' = Append(hLog, Log("warning", "Received update without message in play handler"))
            /\ hpc' = "returned"
       ELSE /\ hLog' = hLog
            /\ hpc' = "reply_text"
    /\ UNCHANGED <<update, handler, sent>>
    /\ UNCHANGED mainVars

\* play_command: the reply, then the log line that reads update.effective_user.id
play_command_reply_text ==
    /\ handler = "play_command"
    /\ hpc = "reply_text"
    /\ \E ok \in BOOLEAN :
         /\ sent' = Append(sent, Call("reply_text", "primary", PlayReply, FALSE, ok))
         /\ IF ok /\ update.effective_user
            THEN /\ hLog' = Append(hLog, Log("info", "Play command executed"))
                 /\ hpc' = "returned"
            ELSE /\ hLog' = Append(hLog, Log("error", "Error in play handler"))
                 /\ hpc' = play_command_except(update)
    /\ UNCHANGED <<update, handler>>
    /\ UNCHANGED mainVars

\* play_command: the apology, in its own try
play_command_fallback ==
    /\ handler = "play_command"
    /\ hpc = "fallback"
    /\ \E ok \in BOOLEAN :
         /\ sent' = Append(sent, Call("reply_text", "fallback",
                                      Reply(SORRY_LATER, None, <<>>), FALSE, ok))
         /\ hLog' = IF ok THEN hLog
                    ELSE Append(hLog, Log("error", "Failed to send error message to user"))
    /\ hpc' = "returned"
    /\ UNCHANGED <<update, handler>>
    /\ UNCHANGED mainVars

play_command == play_command_entry \/ play_command_reply_text \/ play_command_fallback

\* menu_command: the except clause of the outer try
menu_command_except(u) == IF u.message THEN "fallback" ELSE "returned"

\* menu_command: the guard on update.message
menu_command_entry ==
    /\ handler = "menu_command"
    /\ hpc = "entry"
    /\ IF ~update.message
       THEN /\ hLog' = Append(hLog, Log("warning", "Received update without message in menu handler"))
            /\ hpc' = "returned"
       ELSE /\ hLog' = hLog
            /\ hpc' = "reply_text"
    /\ UNCHANGED <<update, handler, sent>>
    /\ UNCHANGED mainVars

\* menu_command: the reply, then the log line that reads update.effective_user.id
menu_command_reply_text ==
    /\ handler = "menu_command"
    /\ hpc = "reply_text"
    /\ \E ok \in BOOLEAN :
         /\ sent' = Append(sent, Call("reply_text", "primary", MenuReply(registry), FALSE, ok))
         /\ IF ok /\ update.effective_user
            THEN /\ hLog' = Append(hLog, Log("info", "Menu command executed"))
                 /\ hpc' = "returned"
            ELSE /\ hLog' = Append(hLog, Log("error", "Error in menu handler"))
                 /\ hpc' = menu_command_except(update)
    /\ UNCHANGED <<update, handler>>
    /\ UNCHANGED mainVars

\* menu_command: the apology, in its own try
menu_command_fallback ==
    /\ handler = "menu_command"
    /\ hpc = "fallback"
    /\ \E ok \in BOOLEAN :
         /\ sent' = Append(sent, Call("reply_text", "fallback",
                                      Reply(SORRY_MENU, None, <<>>), FALSE, ok))
         /\ hLog' = IF ok THEN hLog
                    ELSE Append(hLog, Log("error", "Failed to send error message to user"))
    /\ hpc' = "returned"
    /\ UNCHANGED <<update, handler>>
    /\ UNCHANGED mainVars

menu_command == menu_command_entry \/ menu_command_reply_text \/ menu_command_fallback

(***************************************************************************)
(* button_callback.                                                        *)
(***************************************************************************)
\* command_name = query.data.replace("cmd_", "")
command_name(u) == replace(u.data, CMD_PREFIX)

\* an except clause that lets the exception go
button_callback_except_raising(u) == "raised"

\* the except clause of the outer try
button_callback_except(u) == IF u.callback_query THEN "fallback" ELSE "returned"

\* the three guards, on the query, its data and its message
button_callback_entry ==
    /\ handler = "button_callback"
    /\ hpc = "entry"
    /\ IF ~update.callback_query
       THEN /\ hLog' = Append(hLog, Log("warning", "Received update without callback_query"))
            /\ hpc' = "returned"
       ELSE IF ~update.data_set \/ update.data = <<>>
       THEN /\ hLog' = Append(hLog, Log("warning", "Received callback_query without data"))
            /\ hpc' = "answer_invalid"
       ELSE IF ~update.query_message
       THEN /\ hLog' = Append(hLog, Log("warning", "Received callback_query without message"))
            /\ hpc' = "answer_not_found"
       ELSE /\ hLog' = hLog
            /\ hpc' = "answer"
    /\ UNCHANGED <<update, handler, sent>>
    /\ UNCHANGED mainVars

\* await query.answer("Invalid button data"); return
button_callback_answer_invalid ==
    /\ handler = "button_callback"
    /\ hpc = "answer_invalid"
    /\ \E ok \in BOOLEAN :
         /\ sent' = Append(sent, Call("answer", "ack",
                                      Reply("Invalid button data", None, <<>>), FALSE, ok))
         /\ IF ok
            THEN /\ hLog' = hLog
                 /\ hpc' = "returned"
            ELSE /\ hLog' = Append(hLog, Log("error", "Error in button_callback"))
                 /\ hpc' = button_callback_except(update)
    /\ UNCHANGED <<update, handler>>
    /\ UNCHANGED mainVars

\* await query.answer("Message not found"); return
button_callback_answer_not_found ==
    /\ handler = "button_callback"
    /\ hpc = "answer_not_found"
    /\ \E ok \in BOOLEAN :
         /\ sent' = Append(sent, Call("answer", "ack",
                                      Reply("Message not found", None, <<>>), FALSE, ok))
         /\ IF ok
            THEN /\ hLog' = hLog
                 /\ hpc' = "returned"
            ELSE /\ hLog' = Append(hLog, Log("error", "Error in button_callback"))
                 /\ hpc' = button_callback_except(update)
    /\ UNCHANGED <<update, handler>>
    /\ UNCHANGED mainVars

\* await query.answer(), the log line that reads update.effective_user.id,
\* then the prefix test and the if/elif chain up to the branch's reply_text
button_callback_answer ==
    /\ handler = "button_callback"
    /\ hpc = "answer"
    /\ \E ok \in BOOLEAN :
         /\ sent' = Append(sent, Call("answer", "ack", Reply(None, None, <<>>), FALSE, ok))
         /\ IF ok /\ update.effective_user
            THEN /\ hLog' = Append(hLog, Log("info", "Button callback received"))
                 /\ hpc' = IF /\ startswith(update.data, CMD_PREFIX)
                              /\ ButtonDispatch(command_name(update), registry) # NoOp
                           THEN "reply_text"
                           ELSE "returned"
            ELSE /\ hLog' = Append(hLog, Log("error", "Error in button_callback"))
                 /\ hpc' = button_callback_except(update)
    /\ UNCHANGED <<update, handler>>
    /\ UNCHANGED mainVars

\* await query.message.reply_text(...) of the branch taken, then its log line
button_callback_reply_text ==
    /\ handler = "button_callback"
    /\ hpc = "reply_text"
    /\ \E ok \in BOOLEAN :
         /\ sent' = Append(sent, Call("reply_text", "primary",
                                      ButtonDispatch(command_name(update), registry),
                                      FALSE, ok))
         /\ IF ok
            THEN /\ hLog' = Append(hLog, Log("info", "executed via button"))
                 /\ hpc' = "returned"
            ELSE /\ hLog' = Append(hLog, Log("error", "Error in button_callback"))
                 /\ hpc' = button_callback_except(update)
    /\ UNCHANGED <<update, handler>>
    /\ UNCHANGED mainVars

\* await update.callback_query.answer("Sorry, ...", show_alert=True), in its own try
button_callback_fallback ==
    /\ handler = "button_callback"
    /\ hpc = "fallback"
    /\ \E ok \in BOOLEAN :
         /\ sent' = Append(sent, Call("answer", "fallback",
                                      Reply(SORRY_AGAIN, None, <<>>), TRUE, ok))
         /\ hLog' = IF ok THEN hLog
                    ELSE Append(hLog, Log("error", "Failed to send error answer to user"))
    /\ hpc' = "returned"
    /\ UNCHANGED <<update, handler>>
    /\ UNCHANGED mainVars

button_callback ==
    \/ button_callback_entry
    \/ button_callback_answer_invalid
    \/ button_callback_answer_not_found
    \/ button_callback_answer
    \/ button_callback_reply_text
    \/ button_callback_fallback

(***************************************************************************)
(* Specifications.                                                         *)
(***************************************************************************)
Next ==
    \/ main
    \/ post_init
    \/ process_update
    \/ start
    \/ play_command
    \/ menu_command
    \/ button_callback

Spec == Init /\ [][Next]_vars

\* the same program, for every command list up to MaxRegistry entries
SpecReg == InitReg /\ [][Next]_vars

(***************************************************************************)
(* Vocabulary of the properties.                                           *)
(***************************************************************************)
SlashHandlers == {"start", "play_command", "menu_command"}

\* positions in sent of the calls of one primitive / of one call site
CallsOf(method) == {i \in DOMAIN sent : sent[i].method = method}
CallsAs(role) == {i \in DOMAIN sent : sent[i].role = role}
Delivered(method) == {i \in CallsOf(method) : sent[i].ok}
AllDelivered == \A i \in DOMAIN sent : sent[i].ok

\* the payload is "cmd_" followed by one of the three command names
ExactCommandPayload(d) ==
    \E n \in {Str_start, Str_play, Str_menu} : d = CMD_PREFIX \o n

\* s contains sub as a run of consecutive characters
contains(s, sub) ==
    \E i \in 0..(Len(s) - Len(sub)) : SubSeq(s, i + 1, i + Len(sub)) = sub

\* the callback data on the buttons of the menu rendered for reg
MenuPayloads(reg) ==
    {MenuKeyboard(reg)[k][1].callback_data : k \in DOMAIN MenuKeyboard(reg)}

(***************************************************************************)
(* Properties.                                                             *)
(***************************************************************************)
\* C1: when button_callback has returned, query.answer has been called
\* exactly once for the update, whatever calls failed.
C1_AcknowledgedExactlyOnce ==
    (handler = "button_callback" /\ hpc = "returned")
        => Cardinality(CallsOf("answer")) = 1

\* C2: with BOT_TOKEN not set, main logs an error and returns; it never
\* gets to build or start the application.
C2_NoStartWithoutToken ==
    (envToken = Unset /\ mainPc # "main")
        => /\ mainPc = "returned"
           /\ \E i \in DOMAIN mainLog : mainLog[i].level = "error"

\* C3: a button press whose data is not exactly "cmd_" + a known command
\* name gets no reply message, and has been acknowledged once the handler
\* has returned.
C3_ReplyOnlyForExactPayload ==
    (handler = "button_callback" /\ update.data_set /\ ~ExactCommandPayload(update.data))
        => /\ CallsOf("reply_text") = {}
           /\ hpc = "returned" => CallsOf("answer") # {}

\* C4: the reply button_callback sends for the data "cmd_menu" has the
\* text, parse mode and keyboard (labels, data, order) of the reply that
\* menu_command sends, whatever the command list.
C4_MenuButtonRepliesAsMenuCommand ==
    \A i \in DOMAIN sent :
        /\ (handler = "button_callback" /\ update.data = CMD_PREFIX \o Str_menu
                /\ sent[i].method = "reply_text")
              => Content(sent[i]) = MenuReply(registry)
        /\ (handler = "menu_command" /\ sent[i].role = "primary")
              => Content(sent[i]) = MenuReply(registry)

C4_Witness ==
    /\ handler = "button_callback"
    /\ hpc = "returned"
    /\ update.data = CMD_PREFIX \o Str_menu
    /\ Len(registry) >= 2
    /\ Delivered("reply_text") # {}

\* C5: no handler lets an exception out; after the reply of an update at
\* most one fallback call is made, it is the last call for the update, and
\* its failure is only logged; so the reply and its fallback are never
\* more than two calls, and reply_text is never called more than twice.
\* (The acknowledgement of a button press is a separate call, see C1.)
C5_SendFailureContained ==
    /\ hpc # "raised"
    /\ Cardinality(CallsAs("fallback")) <= 1
    /\ Cardinality(CallsAs("primary") \cup CallsAs("fallback")) <= 2
    /\ Cardinality(CallsOf("reply_text")) <= 2
    /\ \A i \in CallsAs("fallback") :
          /\ i = Len(sent)
          /\ hpc = "returned"
          /\ ~sent[i].ok => /\ hLog # <<>>
                            /\ hLog[Len(hLog)].level = "error"

C5_Witness ==
    /\ handler = "start"
    /\ hpc = "returned"
    /\ Len(sent) = 2
    /\ ~sent[1].ok
    /\ ~sent[2].ok

\* C6: a slash command whose message is present, handled while every
\* transport call succeeds, has exactly one reply delivered when its
\* handler has returned.
C6_ExactlyOneReply ==
    (handler \in SlashHandlers /\ hpc = "returned" /\ update.message /\ AllDelivered)
        => Cardinality(Delivered("reply_text")) = 1

\* C7: set_my_commands is only called after delete_my_commands has been
\* called, it carries the whole command list in order, and once post_init
\* has made a call startup goes on to polling, whichever call failed.
C7_ResetThenSet ==
    /\ \A i \in DOMAIN calls :
          calls[i].method = "set_my_commands"
              => /\ \E j \in 1..(i - 1) : calls[j].method = "delete_my_commands"
                 /\ calls[i].commands = registry
    /\ calls # <<>> => mainPc \in {"post_init_set", "polling"}
    /\ mainPc = "polling" => /\ Len(calls) = 2
                             /\ calls[2].method = "set_my_commands"

C7_Witness ==
    /\ mainPc = "polling"
    /\ Len(calls) = 2
    /\ ~calls[1].ok
    /\ ~calls[2].ok

\* C8: the keyboard of menu_command's reply has one row of one callback
\* button per command of the list, in list order; the k-th button's data
\* is "cmd_" + the k-th command name and its label contains that name.
C8_MenuOneButtonPerCommand ==
    \A i \in DOMAIN sent :
        (handler = "menu_command" /\ sent[i].role = "primary")
            => LET keyboard == sent[i].reply_markup
               IN  /\ Len(keyboard) = Len(registry)
                   /\ \A k \in DOMAIN keyboard :
                         /\ Len(keyboard[k]) = 1
                         /\ keyboard[k][1].callback_data = CMD_PREFIX \o registry[k].command
                         /\ keyboard[k][1].url = None
                         /\ contains(keyboard[k][1].text, registry[k].command)

C8_Witness ==
    /\ handler = "menu_command"
    /\ hpc = "returned"
    /\ Len(registry) >= 2
    /\ registry[1].command # registry[2].command
    /\ Delivered("reply_text") # {}

\* C9: a slash command without message makes no transport call at all, a
\* button press without data or without message gets no reply message, and
\* in neither case does an exception leave the handler.
C9_MalformedHandledLocally ==
    /\ (handler \in SlashHandlers /\ ~update.message)
          => /\ sent = <<>>
             /\ hpc \in {"entry", "returned"}
    /\ (handler = "button_callback" /\ (~update.data_set \/ ~update.query_message))
          => /\ CallsOf("reply_text") = {}
             /\ hpc # "raised"

C9_Witness ==
    /\ handler = "button_callback"
    /\ hpc = "returned"
    /\ ~update.data_set
    /\ Len(sent) = 2
    /\ ~sent[1].ok

\* C10: every callback data that the rendered menu carries is one for
\* which button_callback takes a branch that replies: pressing a menu
\* button, with every transport call succeeding, ends with a reply
\* delivered.
C10_NoDeadMenuButton ==
    /\ \A d \in MenuPayloads(registry) :
          /\ startswith(d, CMD_PREFIX)
          /\ ButtonDispatch(replace(d, CMD_PREFIX), registry) # NoOp
    /\ (handler = "button_callback" /\ hpc = "returned" /\ update.data_set
            /\ update.data \in MenuPayloads(registry)
            /\ update.query_message /\ AllDelivered)
          => Delivered("reply_text") # {}

C10_Witness ==
    /\ handler = "button_callback"
    /\ hpc = "returned"
    /\ update.data = CMD_PREFIX \o Str_menu
    /\ update.data \in MenuPayloads(registry)
    /\ Len(sent) = 2
    /\ AllDelivered
====
